---- MODULE Spec2Model ----
(***************************************************************************)
(* nanopore_sync: the run-lifecycle coordinator of watchers.py.            *)
(*                                                                         *)
(* The watchdog observer thread hands filesystem events to two handlers;   *)
(* every handler call is turned into an asyncio task on one event loop     *)
(* (AsyncEventHandler.__getattribute__ / _create_task).  The model keeps   *)
(* the loop's FIFO ready queue, the tasks with the await they are parked   *)
(* at, the two condition-variable structures shared by the handlers, the   *)
(* handlers' _tasks lists and the shutdown sequence of watch_new_runs.     *)
(***************************************************************************)
EXTENDS Naturals, Sequences, FiniteSets

\* ------------------------------------------------------------- bounds

\* Number of filesystem events that reach a handler in one behaviour.
MaxEvents == 4

\* The event source produces its next event only while at most this many
\* callbacks are waiting in the loop's ready queue.
MaxBacklog == 2

\* Number of files in a run directory, and the size of a file in bytes.
MaxFiles == 2
MaxFileSize == 2

\* ------------------------------------------------------- names and paths

\* Directory names that match CONFIG.run_name_pattern as a whole.
Runs == {"r1", "r2"}

None == "none"

Handlers == {"dir", "file"}

\* A path is the sequence of its components below "/".
RunDir(r) == <<"in", r>>
SubDir(r) == <<"in", r, "c">>
NestedRunDir(r, q) == <<"in", r, "c", q>>
TopSignal(r) == <<"in", r, "final_summary.txt">>
NestedSignal(r) == <<"in", r, "c", "final_summary.txt">>
DataFile(r) == <<"in", r, "c", "a.txt">>
TopData(r) == <<"in", r, "a.txt">>
TmpDir == <<"in", "tmp">>
Outside == <<"ext", "final_summary.txt">>
NoPath == <<>>

IsRunName(c) == c \in Runs

\* A component on which "final_summary.*" can start to match.
StartsFinalSummary(c) == c = "final_summary.txt"

\* A component that ends in ".txt".
EndsTxt(c) == c \in {"final_summary.txt", "a.txt"}

RECURSIVE FirstRun(_, _)
FirstRun(path, i) ==
    IF i > Len(path) THEN None
    ELSE IF IsRunName(path[i]) THEN path[i]
    ELSE FirstRun(path, i + 1)

\* re.search(CONFIG.run_name_pattern, path): the leftmost match, or None.
ExtractRunName(path) == FirstRun(path, 1)

\* RunDirectoryHandler's regex  .*/<run_name_pattern>$  under re.match.
DirRegexMatch(path) ==
    /\ Len(path) >= 1
    /\ IsRunName(path[Len(path)])

\* RunCompletionHandler's regex
\*     .*/<run_name_pattern>/<completion_signal_pattern>$
\* with the default completion_signal_pattern  .*/final_summary.*\.txt$ :
\* after the "/" that closes the run name the pattern asks for a further
\* "/" in front of "final_summary", so the matching component lies at least
\* two levels below the run directory.
ComplRegexMatch(path) ==
    /\ Len(path) >= 1
    /\ EndsTxt(path[Len(path)])
    /\ \E i \in 1..Len(path) : \E j \in 1..Len(path) :
          /\ IsRunName(path[i])
          /\ j >= i + 2
          /\ StartsFinalSummary(path[j])


\* ------------------------------------------------------ filesystem events

\* A watchdog event: event_type, is_directory, src_path and dest_path
\* (dest_path is empty unless the event is a move).
Event(t, d, src, dest) ==
    [type |-> t, is_directory |-> d, src_path |-> src, dest_path |-> dest]

\* The events the event source produces under Spec: a run directory is
\* created or moved into place; its completion-signal file is created,
\* closed, renamed into place or moved in from outside the source tree; and
\* the completion-signal file of r1 is renamed to a data file of r2.
DirEvents ==
    UNION { { Event("created", TRUE, RunDir(r), NoPath),
              Event("moved", TRUE, TmpDir, RunDir(r)) } : r \in Runs }

FileEvents ==
    UNION { { Event("created", FALSE, NestedSignal(r), NoPath),
              Event("closed", FALSE, NestedSignal(r), NoPath),
              Event("moved", FALSE, DataFile(r), NestedSignal(r)),
              Event("moved", FALSE, Outside, NestedSignal(r)) } : r \in Runs }
    \cup { Event("moved", FALSE, NestedSignal("r1"), DataFile("r2")) }

\* Events of a single type for the completion-signal file, among them the
\* file directly inside the run directory (tests/test_sync.py).
CreatedDirEvents == { Event("created", TRUE, RunDir(r), NoPath) : r \in Runs }

CreatedFileEvents ==
    UNION { { Event("created", FALSE, NestedSignal(r), NoPath),
              Event("created", FALSE, TopSignal(r), NoPath) } : r \in Runs }

MovedFileEvents ==
    UNION { { Event("moved", FALSE, DataFile(r), NestedSignal(r)),
              Event("moved", FALSE, Outside, NestedSignal(r)),
              Event("moved", FALSE, TopData(r), TopSignal(r)),
              Event("moved", FALSE, Outside, TopSignal(r)) } : r \in Runs }

\* Directory events at and below the run-directory level: a subdirectory of
\* a run is created, a directory named like run r2 is created inside run
\* r1, and the directory of run r2 is moved to a subdirectory of run r1.
NestedDirEvents ==
    CreatedDirEvents
    \cup { Event("created", TRUE, SubDir(r), NoPath) : r \in Runs }
    \cup { Event("created", TRUE, NestedRunDir("r1", "r2"), NoPath),
           Event("moved", TRUE, RunDir("r2"), SubDir("r1")) }

NestedFileEvents == { Event("created", FALSE, NestedSignal(r), NoPath) : r \in Runs }

\* Events the completion watch does not pass on, beside one it does.
QuietFileEvents ==
    UNION { { Event("created", FALSE, NestedSignal(r), NoPath),
              Event("closed_no_write", FALSE, NestedSignal(r), NoPath) } : r \in Runs }

\* event_filter of the two observer.schedule calls.
DirectoryWatchAccepts(e) ==
    e.is_directory /\ e.type \in {"created", "moved"}

CompletionWatchAccepts(e) ==
    ~e.is_directory /\ e.type \in {"closed", "moved", "created"}

\* RegexMatchingEventHandler.dispatch: the event passes when the handler's
\* regex matches its dest_path or its src_path.
EventPaths(e) ==
    {p \in {e.dest_path, e.src_path} : p # NoPath}

DirectoryHandlerMatches(e) == \E p \in EventPaths(e) : DirRegexMatch(p)

CompletionHandlerMatches(e) == \E p \in EventPaths(e) : ComplRegexMatch(p)

\* The path a handler method passes on: on_moved passes event.dest_path,
\* on_created and on_closed pass event.src_path.
PathArgument(e) == IF e.type = "moved" THEN e.dest_path ELSE e.src_path

\* CONFIG.completion_signal_pattern,  .*/final_summary.*\.txt$ , on a path
\* inside a run directory: the run whose completion-signal file the path
\* names, or None.
RECURSIVE SignalBelow(_, _)
SignalBelow(path, i) ==
    IF i > Len(path) THEN FALSE
    ELSE StartsFinalSummary(path[i]) \/ SignalBelow(path, i + 1)

RunIndex(path) == CHOOSE i \in 1..Len(path) : path[i] = ExtractRunName(path)

CompletionSignalOf(path) ==
    IF /\ ExtractRunName(path) # None
       /\ EndsTxt(path[Len(path)])
       /\ SignalBelow(path, RunIndex(path) + 1)
    THEN ExtractRunName(path)
    ELSE None

\* A path strictly below a run directory.
BelowRunDir(path) ==
    ExtractRunName(path) # None /\ Len(path) > RunIndex(path)

\* The run whose completion-signal file a file event announces, or None.
SignalRun(e) ==
    IF e.is_directory THEN None ELSE CompletionSignalOf(PathArgument(e))

\* ------------------------------------------------------------------ state

VARIABLES
    phase,            \* watch_new_runs: "watching", "joining", "stopped"
    ready,            \* the event loop's FIFO queue of callbacks
    tasks,            \* the task objects not yet released, by creation order
    handler_tasks,    \* AsyncEventHandler._tasks of each handler
    run_completion,   \* _run_completion: run name -> condition object (0: no key)
    run_modified,     \* keys of RunDirectoryHandler._run_modified
    new_run_waiters,  \* tasks parked in _new_run.wait(), oldest first
    detected,         \* per run: "Detected new run" messages logged
    completed,        \* per run: "Run completion detected" messages logged
    synced,           \* per run: sync_run invocations started
    signal_seen,      \* per run, what the event source has produced for its completion-
                      \* signal file: None while the file is absent, "unobserved" once
                      \* it exists and no event was produced, "closed_no_write" while
                      \* only such events were, "seen" once a created, closed or moved
                      \* event was
    remove_errors,    \* done callbacks whose _tasks.remove raised ValueError
    n_events,         \* filesystem events dispatched to a handler so far
    verify,           \* CONFIG.verify
    source_files,     \* sync_run: the sizes of the files under the source run directory
    target,           \* sync_run: the directory destination/<run name>, or Absent
    copy_result,      \* sync_run: how copytree ended
    outcomes,         \* sync_run: the outcome messages logged, in order
    sync_pc           \* sync_run: "idle", "start", "verify", "done"

sync_vars == <<verify, source_files, target, copy_result, outcomes, sync_pc>>

vars == <<phase, ready, tasks, handler_tasks, run_completion,
          run_modified, new_run_waiters, detected, completed, synced,
          signal_seen, remove_errors, n_events, sync_vars>>

\* Callbacks of the ready queue.
CreateCallback(h, coro, path) ==
    [op |-> "create", id |-> 0, h |-> h, coro |-> coro, path |-> path]

StepCallback(id) ==
    [op |-> "step", id |-> id, h |-> None, coro |-> None, path |-> NoPath]

DoneCallback(id) ==
    [op |-> "done", id |-> id, h |-> None, coro |-> None, path |-> NoPath]

MainCallback ==
    [op |-> "main", id |-> 0, h |-> None, coro |-> None, path |-> NoPath]

\* A task: the handler that owns it, its coroutine and argument, the await
\* it is parked at, whether a cancellation is pending, and the condition
\* object of _run_completion it waits on.
NewTask(h, coro, path) ==
    [h |-> h, coro |-> coro, path |-> path, pc |-> "created",
     must_cancel |-> FALSE, cond |-> 0]

\* A task is named by its index in `tasks'.  Once its done callback has run
\* nothing refers to the task object any more: it is dropped from `tasks'
\* and the names above it move down by one.
Renamed(i, gone) == IF i > gone THEN i - 1 ELSE i

Without(seq, gone) ==
    [k \in 1..(Len(seq) - 1) |-> IF k < gone THEN seq[k] ELSE seq[k + 1]]

WatchersInit ==
    /\ phase = "watching"
    /\ ready = <<>>
    /\ tasks = <<>>
    /\ handler_tasks = [h \in Handlers |-> <<>>]
    /\ run_completion = [r \in Runs |-> 0]
    /\ run_modified = {}
    /\ new_run_waiters = <<>>
    /\ detected = [r \in Runs |-> 0]
    /\ completed = [r \in Runs |-> 0]
    /\ synced = [r \in Runs |-> 0]
    /\ signal_seen = [r \in Runs |-> None]
    /\ remove_errors = 0
    /\ n_events = 0

\* A directory with its files, each by its size in bytes, and a path at
\* which nothing exists.
Dir(files) == [exists |-> TRUE, files |-> files]
Absent == [exists |-> FALSE, files |-> <<>>]

\* How copytree ended: "ok", "exists" (FileExistsError), "error" (shutil.Error
\* with the list of the errors it collected) or "other" (any other exception).
CopyResult(kind, errors) == [kind |-> kind, errors |-> errors]

\* No sync_run is under way.
SyncIdle ==
    /\ verify = TRUE
    /\ source_files = <<>>
    /\ target = Absent
    /\ copy_result = CopyResult(None, <<>>)
    /\ outcomes = <<>>
    /\ sync_pc = "idle"

Init == WatchersInit /\ SyncIdle

\* ------------------------------------------------------------- helpers

Ids(seq) == {seq[i] : i \in 1..Len(seq)}

RemoveFirst(seq, x) ==
    LET i == CHOOSE k \in 1..Len(seq) :
                 seq[k] = x /\ \A m \in 1..(k - 1) : seq[m] # x
    IN SubSeq(seq, 1, i - 1) \o SubSeq(seq, i + 1, Len(seq))

StepCallbacks(ids) == [i \in 1..Len(ids) |-> StepCallback(ids[i])]

\* The tasks of `ids' have their future resolved: each is scheduled to run.
Woken(ts, ids) ==
    [i \in 1..Len(ts) |->
        IF i \in Ids(ids) THEN [ts[i] EXCEPT !.pc = "notified"] ELSE ts[i]]

\* The discovery tasks parked in wait() on condition object `c' of run `r',
\* by creation order: Condition.notify_all resolves the futures of these.
RECURSIVE CompletionWaitersFrom(_, _, _, _)
CompletionWaitersFrom(ts, r, c, i) ==
    IF i > Len(ts) THEN <<>>
    ELSE (IF /\ ts[i].coro = "_do_sync"
             /\ ts[i].pc = "waiting"
             /\ ExtractRunName(ts[i].path) = r
             /\ ts[i].cond = c
          THEN <<i>> ELSE <<>>) \o CompletionWaitersFrom(ts, r, c, i + 1)

CompletionWaiters(ts, r, c) == CompletionWaitersFrom(ts, r, c, 1)

\* Lines 124-126 of _do_sync, reached after "Run completion detected" was
\* logged: LOGGER.infog is no attribute of logging.Logger, so the statement
\* raises AttributeError, the task ends with that exception, and neither the
\* settle delay nor run_in_executor(sync_run) is reached.
SettleThenSyncRepaired == [pc |-> "finished", sync_run |-> 1]
SettleThenSync == [pc |-> "failed", sync_run |-> 0]

\* ------------------------------------------------------ observer thread

Recorded(e) ==
    IF SignalRun(e) = None THEN signal_seen
    ELSE [signal_seen EXCEPT ![SignalRun(e)] =
             IF e.type = "closed_no_write" /\ @ # "seen" THEN e.type ELSE "seen"]

\* The event source produces event e while the observer is running.
Produce(e) ==
    /\ phase = "watching"
    /\ Len(ready) <= MaxBacklog
    /\ signal_seen' = Recorded(e)

\* An event that reaches a handler counts towards MaxEvents.
Deliver(e) ==
    /\ Produce(e)
    /\ n_events < MaxEvents
    /\ n_events' = n_events + 1

\* The observer dispatches an event to RunDirectoryHandler: dispatch() calls
\* on_any_event and then on_<event_type>, and the wrapper of __getattribute__
\* turns each call into loop.call_soon_threadsafe(_create_task, coroutine).
DispatchToDirectoryHandler(e) ==
    /\ Deliver(e)
    /\ DirectoryWatchAccepts(e)
    /\ DirectoryHandlerMatches(e)
    /\ ready' = ready \o <<CreateCallback("dir", "on_any_event", NoPath),
                           CreateCallback("dir", "_do_sync", PathArgument(e))>>
    /\ UNCHANGED <<phase, tasks, handler_tasks, run_completion, run_modified,
                   new_run_waiters, detected, completed, synced, remove_errors>>
    /\ UNCHANGED sync_vars

DispatchToCompletionHandler(e) ==
    /\ Deliver(e)
    /\ CompletionWatchAccepts(e)
    /\ CompletionHandlerMatches(e)
    /\ ready' = ready \o <<CreateCallback("file", "on_any_event", NoPath),
                           CreateCallback("file", "_check_completion", PathArgument(e))>>
    /\ UNCHANGED <<phase, tasks, handler_tasks, run_completion, run_modified,
                   new_run_waiters, detected, completed, synced, remove_errors>>
    /\ UNCHANGED sync_vars

\* An event that no watch accepts or no handler regex matches reaches no handler.
DropEvent(e) ==
    /\ Produce(e)
    /\ ~(DirectoryWatchAccepts(e) /\ DirectoryHandlerMatches(e))
    /\ ~(CompletionWatchAccepts(e) /\ CompletionHandlerMatches(e))
    /\ UNCHANGED <<phase, ready, tasks, handler_tasks, run_completion,
                   run_modified, new_run_waiters, detected, completed, synced,
                   remove_errors, n_events>>
    /\ UNCHANGED sync_vars

\* The completion-signal file appears in a discovered run's directory and
\* the event source delivers no event for it.
SignalFileUnobserved(r) ==
    /\ phase = "watching"
    /\ detected[r] > 0
    /\ signal_seen[r] = None
    /\ signal_seen' = [signal_seen EXCEPT ![r] = "unobserved"]
    /\ UNCHANGED <<phase, ready, tasks, handler_tasks, run_completion,
                   run_modified, new_run_waiters, detected, completed, synced,
                   remove_errors, n_events>>
    /\ UNCHANGED sync_vars

\* ----------------------------------------------------------- event loop

Stepping(id) ==
    /\ ready # <<>>
    /\ Head(ready) = StepCallback(id)

Ended(ts, id, pc) == [ts EXCEPT ![id].pc = pc, ![id].must_cancel = FALSE]

\* _create_task: the task is created (its first step is scheduled) and
\* appended to the handler's _tasks.
RunCreateTask ==
    /\ ready # <<>>
    /\ Head(ready).op = "create"
    /\ LET cb == Head(ready)
           id == Len(tasks) + 1
       IN /\ tasks' = Append(tasks, NewTask(cb.h, cb.coro, cb.path))
          /\ handler_tasks' = [handler_tasks EXCEPT ![cb.h] = Append(@, id)]
          /\ ready' = Append(Tail(ready), StepCallback(id))
    /\ UNCHANGED <<phase, run_completion, run_modified, new_run_waiters,
                   detected, completed, synced, signal_seen, remove_errors,
                   n_events>>
    /\ UNCHANGED sync_vars

\* A task whose cancellation was requested runs: CancelledError is thrown
\* into the coroutine at its current await and the task ends cancelled.
TaskCancelled(id) ==
    /\ Stepping(id)
    /\ tasks[id].must_cancel
    /\ tasks' = Ended(tasks, id, "cancelled")
    /\ ready' = Append(Tail(ready), DoneCallback(id))
    /\ UNCHANGED <<phase, handler_tasks, run_completion, run_modified,
                   new_run_waiters, detected, completed, synced, signal_seen,
                   remove_errors, n_events>>
    /\ UNCHANGED sync_vars

\* on_any_event of either handler: one debug message.
AnyEventStep(id) ==
    /\ Stepping(id)
    /\ ~tasks[id].must_cancel
    /\ tasks[id].coro = "on_any_event"
    /\ tasks' = Ended(tasks, id, "finished")
    /\ ready' = Append(Tail(ready), DoneCallback(id))
    /\ UNCHANGED <<phase, handler_tasks, run_completion, run_modified,
                   new_run_waiters, detected, completed, synced, signal_seen,
                   remove_errors, n_events>>
    /\ UNCHANGED sync_vars

\* _do_sync up to its first suspension: no run name in the path returns;
\* otherwise the discovery is logged, fresh condition objects are stored
\* under the run name in _run_completion and _run_modified, the waiters of
\* _new_run are notified, and the task parks in wait() on the condition it
\* has just stored.  None of the locks taken on the way is ever held across
\* a suspension, so the whole stretch is one step of the loop.
DoSyncStart(id) ==
    /\ Stepping(id)
    /\ ~tasks[id].must_cancel
    /\ tasks[id].coro = "_do_sync"
    /\ tasks[id].pc = "created"
    /\ LET r == ExtractRunName(tasks[id].path)
       IN IF r = None
          THEN /\ tasks' = Ended(tasks, id, "finished")
               /\ ready' = Append(Tail(ready), DoneCallback(id))
               /\ UNCHANGED <<run_completion, run_modified, new_run_waiters,
                              detected>>
          ELSE LET c == detected[r] + 1
               IN /\ detected' = [detected EXCEPT ![r] = c]
                  /\ run_completion' = [run_completion EXCEPT ![r] = c]
                  /\ run_modified' = run_modified \cup {r}
                  /\ tasks' = Woken([tasks EXCEPT ![id].pc = "waiting",
                                                  ![id].cond = c],
                                    new_run_waiters)
                  /\ ready' = Tail(ready) \o StepCallbacks(new_run_waiters)
                  /\ new_run_waiters' = <<>>
    /\ UNCHANGED <<phase, handler_tasks, completed, synced, signal_seen, remove_errors, n_events>>
    /\ UNCHANGED sync_vars

\* _do_sync after its condition was notified: the completion is logged and
\* lines 124-126 follow.
DoSyncResume(id) ==
    /\ Stepping(id)
    /\ ~tasks[id].must_cancel
    /\ tasks[id].coro = "_do_sync"
    /\ tasks[id].pc = "notified"
    /\ LET r == ExtractRunName(tasks[id].path)
       IN /\ completed' = [completed EXCEPT ![r] = @ + 1]
          /\ synced' = [synced EXCEPT ![r] = @ + SettleThenSync.sync_run]
          /\ tasks' = Ended(tasks, id, SettleThenSync.pc)
    /\ ready' = Append(Tail(ready), DoneCallback(id))
    /\ UNCHANGED <<phase, handler_tasks, run_completion, run_modified,
                   new_run_waiters, detected, signal_seen, remove_errors,
                   n_events>>
    /\ UNCHANGED sync_vars

\* The tasks that _check_completion notifies for run name r: those waiting
\* on the condition object currently stored under r.
Notified(r) == CompletionWaiters(tasks, r, run_completion[r])

\* The predicate of wait_for at line 153.
RunKnownAlways(r) == TRUE
RunKnown(r) == run_completion[r] # 0

\* _check_completion, at its start and each time _new_run wakes it: no run
\* name in the path returns; while the run name is no key of _run_completion
\* the task parks in _new_run.wait(); once it is a key, the condition stored
\* under it is notified and the task ends.
CheckCompletion(id) ==
    /\ Stepping(id)
    /\ ~tasks[id].must_cancel
    /\ tasks[id].coro = "_check_completion"
    /\ tasks[id].pc \in {"created", "notified"}
    /\ LET r == ExtractRunName(tasks[id].path)
       IN IF r = None
          THEN /\ tasks' = Ended(tasks, id, "finished")
               /\ ready' = Append(Tail(ready), DoneCallback(id))
               /\ UNCHANGED new_run_waiters
          ELSE IF ~RunKnown(r)
          THEN /\ tasks' = [tasks EXCEPT ![id].pc = "wait_new_run"]
               /\ new_run_waiters' = Append(new_run_waiters, id)
               /\ ready' = Tail(ready)
          ELSE /\ tasks' = Woken(Ended(tasks, id, "finished"), Notified(r))
               /\ ready' = Append(Tail(ready) \o StepCallbacks(Notified(r)),
                                  DoneCallback(id))
               /\ UNCHANGED new_run_waiters
    /\ UNCHANGED <<phase, handler_tasks, run_completion, run_modified,
                   detected, completed, synced, signal_seen, remove_errors,
                   n_events>>
    /\ UNCHANGED sync_vars

\* The done callback of a task, self._tasks.remove: list.remove raises
\* ValueError when the task is not in the list.
RunDoneCallback ==
    /\ ready # <<>>
    /\ Head(ready).op = "done"
    /\ LET id == Head(ready).id
           h == tasks[id].h
           left == [k \in Handlers |->
                      IF k = h /\ id \in Ids(handler_tasks[k])
                      THEN RemoveFirst(handler_tasks[k], id)
                      ELSE handler_tasks[k]]
       IN /\ remove_errors' =
                 IF id \in Ids(handler_tasks[h]) THEN remove_errors
                 ELSE remove_errors + 1
          /\ handler_tasks' =
                 [k \in Handlers |->
                     [n \in 1..Len(left[k]) |-> Renamed(left[k][n], id)]]
          /\ tasks' = Without(tasks, id)
          /\ ready' = [n \in 1..(Len(ready) - 1) |->
                          [ready[n + 1] EXCEPT !.id = Renamed(@, id)]]
          /\ new_run_waiters' =
                 [n \in 1..Len(new_run_waiters) |-> Renamed(new_run_waiters[n], id)]
    /\ UNCHANGED <<phase, run_completion, run_modified,
                   detected, completed, synced, signal_seen, n_events>>
    /\ UNCHANGED sync_vars

\* ------------------------------------------------------------- shutdown

\* watch_new_runs is cancelled: observer.stop(), then observer.join in the
\* executor.  dispatch() is one step of the observer thread, so the thread
\* ends at once; the executor future then wakes watch_new_runs through the
\* loop, behind every callback the observer has queued.
BeforeQueued(queue) == <<MainCallback>> \o queue
AfterJoin(queue) == Append(queue, MainCallback)

Interrupt ==
    /\ phase = "watching"
    /\ phase' = "joining"
    /\ ready' = AfterJoin(ready)
    /\ UNCHANGED <<tasks, handler_tasks, run_completion, run_modified,
                   new_run_waiters, detected, completed, synced, signal_seen,
                   remove_errors, n_events>>
    /\ UNCHANGED sync_vars

\* The tasks cancel_tasks is called on, in order: the completion handler's,
\* then the directory handler's.
TasksToCancelCompletionOnly == handler_tasks["file"]
TasksToCancel == handler_tasks["file"] \o handler_tasks["dir"]

Parked(t) == t.pc \in {"waiting", "wait_new_run"}
Scheduled(t) == t.pc \in {"created", "notified"}

\* cancel_tasks on both handlers: task.cancel() on every task of _tasks, then
\* _tasks.clear().  Cancelling a parked task cancels the future it waits for,
\* which schedules the task; a task already scheduled only has the request
\* noted; a task that has ended is left alone.
CancelHandlerTasks ==
    /\ ready # <<>>
    /\ Head(ready).op = "main"
    /\ LET hit == {i \in Ids(TasksToCancel) : Parked(tasks[i]) \/ Scheduled(tasks[i])}
           parked == SelectSeq(TasksToCancel, LAMBDA i : Parked(tasks[i]))
       IN /\ tasks' = [i \in 1..Len(tasks) |->
                          IF i \in hit
                          THEN [tasks[i] EXCEPT !.pc = "notified", !.must_cancel = TRUE]
                          ELSE tasks[i]]
          /\ ready' = Tail(ready) \o StepCallbacks(parked)
          /\ new_run_waiters' = SelectSeq(new_run_waiters, LAMBDA i : i \notin hit)
    /\ handler_tasks' = [h \in Handlers |-> <<>>]
    /\ phase' = "stopped"
    /\ UNCHANGED <<run_completion, run_modified, detected, completed,
                   synced, signal_seen, remove_errors, n_events>>
    /\ UNCHANGED sync_vars

\* ------------------------------------------------------------- sync_run

\* The files of a directory tree, each by its size in bytes.
Trees == UNION { [1..n -> 0..MaxFileSize] : n \in 0..MaxFiles }

\* What copytree can leave at the target: the first files of the source,
\* up to all of them (the source may gain files after copytree has listed it).
Prefixes(tree) == { Dir(SubSeq(tree, 1, n)) : n \in 0..Len(tree) }

\* The error lists of a shutil.Error: for each file that failed, whether the
\* message starts with "[Errno 1] Operation not permitted" ("eperm") or not.
ErrorLists == UNION { [1..n -> {"eperm", "eio"}] : n \in 1..2 }

\* _dir_size: the sum of st_size over the files below the path; a path that
\* does not exist has no files.
RECURSIVE SumSizes(_, _)
SumSizes(tree, i) ==
    IF i > Len(tree) THEN 0 ELSE tree[i] + SumSizes(tree, i + 1)

DirSize(d) == IF d.exists THEN SumSizes(d.files, 1) ELSE 0

\* Line 45: every collected error is an operation-not-permitted error.
Benign(errors) == \A i \in 1..Len(errors) : errors[i] = "eperm"

\* The outcome messages of sync_run.
Outcome(kind, ssize, dsize) == [kind |-> kind, ssize |-> ssize, dsize |-> dsize]
AlreadyExists == Outcome("already_exists", 0, 0)
CopyFailed == Outcome("copy_failed", 0, 0)
Success == Outcome("success", 0, 0)
SizeMismatch(ssize, dsize) == Outcome("size_mismatch", ssize, dsize)

\* copytree is called without dirs_exist_ok: os.makedirs raises
\* FileExistsError when the target exists.
TargetNeverExists == FALSE
TargetExists == target.exists

\* Lines 41-55, the copy and its exception handlers.  FileExistsError logs
\* the already-exists warning and returns; shutil.Error logs a debug message
\* when benign and the copy-failed error otherwise, and in both cases leaves
\* the try statement without returning; any other exception logs the
\* copy-failed error and returns.
CopyTree ==
    /\ sync_pc = "start"
    /\ IF TargetExists
       THEN /\ copy_result' = CopyResult("exists", <<>>)
            /\ outcomes' = Append(outcomes, AlreadyExists)
            /\ sync_pc' = "done"
            /\ UNCHANGED target
       ELSE \/ /\ copy_result' = CopyResult("ok", <<>>)
               /\ target' \in Prefixes(source_files)
               /\ sync_pc' = "verify"
               /\ UNCHANGED outcomes
            \/ \E errors \in ErrorLists :
                  /\ copy_result' = CopyResult("error", errors)
                  /\ target' \in Prefixes(source_files)
                  /\ outcomes' = IF Benign(errors) THEN outcomes
                                 ELSE Append(outcomes, CopyFailed)
                  /\ sync_pc' = "verify"
            \/ /\ copy_result' = CopyResult("other", <<>>)
               /\ target' \in Prefixes(source_files) \cup {Absent}
               /\ outcomes' = Append(outcomes, CopyFailed)
               /\ sync_pc' = "done"
    /\ UNCHANGED <<verify, source_files>>
    /\ UNCHANGED <<phase, ready, tasks, handler_tasks, run_completion,
                   run_modified, new_run_waiters, detected, completed, synced,
                   signal_seen, remove_errors, n_events>>

\* Line 57: the condition of the size check.
SizesDiffer == DirSize(Dir(source_files)) # DirSize(target)
VerifyFails == verify /\ DirSize(Dir(source_files)) # DirSize(target)

\* Lines 57-61: the size mismatch warning, or the success message.
Verify ==
    /\ sync_pc = "verify"
    /\ outcomes' = Append(outcomes,
                          IF VerifyFails
                          THEN SizeMismatch(DirSize(Dir(source_files)), DirSize(target))
                          ELSE Success)
    /\ sync_pc' = "done"
    /\ UNCHANGED <<verify, source_files, target, copy_result>>
    /\ UNCHANGED <<phase, ready, tasks, handler_tasks, run_completion,
                   run_modified, new_run_waiters, detected, completed, synced,
                   signal_seen, remove_errors, n_events>>

\* sync_run is called once, for any source tree, any state of the target and
\* either setting of CONFIG.verify.
SyncInit ==
    /\ WatchersInit
    /\ verify \in BOOLEAN
    /\ source_files \in Trees
    /\ target \in {Dir(t) : t \in Trees} \cup {Absent}
    /\ copy_result = CopyResult(None, <<>>)
    /\ outcomes = <<>>
    /\ sync_pc = "start"

SyncNext == CopyTree \/ Verify

SyncSpec == SyncInit /\ [][SyncNext]_vars

\* ---------------------------------------------------------- specification

\* The steps of the event loop and of watch_new_runs.
Loop ==
    \/ RunCreateTask
    \/ \E id \in 1..Len(tasks) : TaskCancelled(id)
    \/ \E id \in 1..Len(tasks) : AnyEventStep(id)
    \/ \E id \in 1..Len(tasks) : DoSyncStart(id)
    \/ \E id \in 1..Len(tasks) : DoSyncResume(id)
    \/ \E id \in 1..Len(tasks) : CheckCompletion(id)
    \/ RunDoneCallback
    \/ Interrupt
    \/ CancelHandlerTasks

Next ==
    \/ \E e \in DirEvents : DispatchToDirectoryHandler(e)
    \/ \E e \in FileEvents : DispatchToCompletionHandler(e)
    \/ Loop

Spec == Init /\ [][Next]_vars

\* The completion-signal file announced by created events only.
CreatedNext ==
    \/ \E e \in CreatedDirEvents : DispatchToDirectoryHandler(e)
    \/ \E e \in CreatedFileEvents : DispatchToCompletionHandler(e)
    \/ \E e \in CreatedFileEvents : DropEvent(e)
    \/ Loop

CreatedSpec == Init /\ [][CreatedNext]_vars

\* The completion-signal file announced by moved events only.
MovedNext ==
    \/ \E e \in CreatedDirEvents : DispatchToDirectoryHandler(e)
    \/ \E e \in MovedFileEvents : DispatchToCompletionHandler(e)
    \/ \E e \in MovedFileEvents : DropEvent(e)
    \/ Loop

MovedSpec == Init /\ [][MovedNext]_vars

\* The completion-signal file appears with no event, or with events the
\* completion watch does not pass on.
QuietNext ==
    \/ \E e \in CreatedDirEvents : DispatchToDirectoryHandler(e)
    \/ \E e \in QuietFileEvents : DispatchToCompletionHandler(e)
    \/ \E e \in QuietFileEvents : DropEvent(e)
    \/ \E r \in Runs : SignalFileUnobserved(r)
    \/ Loop

QuietSpec == Init /\ [][QuietNext]_vars

\* Directory events below the run-directory level.
NestedNext ==
    \/ \E e \in NestedDirEvents : DispatchToDirectoryHandler(e)
    \/ \E e \in NestedDirEvents : DropEvent(e)
    \/ \E e \in NestedFileEvents : DispatchToCompletionHandler(e)
    \/ Loop

NestedSpec == Init /\ [][NestedNext]_vars

\* ------------------------------------------------------------ properties

\* Nothing is left to run: the ready queue is empty and every task that has
\* not ended is parked on a condition, which only a further event can notify.
Settled ==
    /\ ready = <<>>
    /\ \A i \in 1..Len(tasks) : Parked(tasks[i])

DiscoveredAtMostOnce == \A r \in Runs : detected[r] <= 1

\* C3: once a run is discovered and a created event for its completion-signal
\* file was produced, the run reaches sync_run by the time nothing is left to
\* run.
CreatedSignalLeadsToSync ==
    \A r \in Runs :
        (Settled /\ detected[r] > 0 /\ signal_seen[r] = "seen") => synced[r] > 0

CompletionDetectedAtMostOnce == \A r \in Runs : completed[r] <= 1

\* C6: a discovered run whose completion-signal file exists with no event
\* produced for it has its completion detected by the time nothing is left
\* to run.
UnobservedSignalDetected ==
    \A r \in Runs :
        (Settled /\ signal_seen[r] = "unobserved") => completed[r] > 0

\* C7: a discovered run whose completion-signal file was announced by a moved
\* event (a rename in place or a move from outside) is Completed and reaches
\* sync_run by the time nothing is left to run.
MovedSignalLeadsToSync ==
    \A r \in Runs :
        (Settled /\ detected[r] > 0 /\ signal_seen[r] = "seen")
            => (completed[r] > 0 /\ synced[r] > 0)

\* C8: a discovered run whose completion-signal file was announced by
\* closed-without-write events only is Completed by the time nothing is left
\* to run.
ClosedNoWriteDetected ==
    \A r \in Runs :
        (Settled /\ detected[r] > 0 /\ signal_seen[r] = "closed_no_write")
            => completed[r] > 0

\* C9: once watch_new_runs has stopped the observer and cancelled the handler
\* tasks, no completion is logged and no sync_run is started any more.
NoSyncAfterShutdown ==
    [][phase = "stopped" => (completed' = completed /\ synced' = synced)]_vars

\* After the shutdown a discovery task has ended cancelled, for a run whose
\* completion-signal event was produced and whose completion was never logged.
PendingRunCancelled ==
    /\ phase = "stopped"
    /\ \E i \in 1..Len(tasks) :
          /\ tasks[i].coro = "_do_sync"
          /\ tasks[i].pc = "cancelled"
          /\ completed[ExtractRunName(tasks[i].path)] = 0
          /\ signal_seen[ExtractRunName(tasks[i].path)] = "seen"

\* C11: a directory event whose path lies strictly below an already
\* registered run directory registers no run and starts no completion wait:
\* no discovery task started for such a path is parked in a completion wait
\* on a condition it stored over an earlier one.
NestedDirectoryStartsNoWait ==
    \A i \in 1..Len(tasks) :
        (tasks[i].coro = "_do_sync" /\ BelowRunDir(tasks[i].path) /\ tasks[i].cond > 1)
            => tasks[i].pc # "waiting"

\* A failure of the copy that is not purely a benign metadata failure.
GenuineFailure ==
    \/ copy_result.kind = "other"
    \/ copy_result.kind = "error" /\ ~Benign(copy_result.errors)

\* C12: sync_run reports exactly one outcome, and after a genuine copy
\* failure that outcome is the copy-failed one.
GenuineFailureIsCopyFailed ==
    sync_pc = "done" =>
        /\ Len(outcomes) = 1
        /\ GenuineFailure => outcomes = <<CopyFailed>>

\* C13: when the target exists at the start of sync_run, the call leaves the
\* target as it is and reports the already-exists outcome and nothing else.
ExistingTargetUntouched ==
    [][(sync_pc = "start" /\ target.exists) =>
          /\ target' = target
          /\ outcomes' = <<AlreadyExists>>
          /\ sync_pc' = "done"]_vars

\* sync_run has returned the already-exists outcome for a target whose
\* contents differ from the source.
ReturnedAlreadyExists ==
    /\ sync_pc = "done"
    /\ outcomes = <<AlreadyExists>>
    /\ target.exists
    /\ target.files # source_files

\* C14: once the processing of a run has come to its end (its completion was
\* logged and no discovery task of it is left), the run name is no longer a
\* key of the run-completion map.
FinishedRunForgotten ==
    \A r \in Runs :
        ( /\ Settled
          /\ completed[r] > 0
          /\ \A i \in 1..Len(tasks) :
                ~(tasks[i].coro = "_do_sync" /\ ExtractRunName(tasks[i].path) = r) )
            => run_completion[r] = 0

\* C15: after the copy step, when verification is enabled and the summed
\* sizes of source and target differ, sync_run logs the size mismatch with
\* both sizes as its last outcome and leaves source and target alone; in
\* every other case the size comparison yields no mismatch outcome and the
\* success message is logged.
SizeCheckDecidesOutcome ==
    [][sync_pc = "verify" =>
          /\ sync_pc' = "done"
          /\ target' = target
          /\ source_files' = source_files
          /\ outcomes' =
                Append(outcomes,
                       IF verify /\ SumSizes(source_files, 1) # DirSize(target)
                       THEN SizeMismatch(SumSizes(source_files, 1), DirSize(target))
                       ELSE Success)]_vars

\* sync_run has ended with a size mismatch outcome for a partial copy.
ReturnedSizeMismatch ==
    /\ sync_pc = "done"
    /\ verify
    /\ copy_result.kind = "ok"
    /\ Len(outcomes) = 1
    /\ outcomes[1].kind = "size_mismatch"
    /\ outcomes[1].ssize > outcomes[1].dsize
    /\ outcomes[1].dsize > 0

\* C16: handler tasks are cancelled only once the observer is stopped and
\* joined, and after cancel_tasks has run on both handlers no event reaches
\* a handler and no handler task is created.
ShutdownOrder ==
    [][ /\ (\E i \in 1..Len(tasks') : tasks'[i].must_cancel) => phase' = "stopped"
        /\ phase = "stopped" =>
              /\ n_events' = n_events
              /\ Len(tasks') <= Len(tasks)
              /\ \A k \in 1..Len(ready') : ready'[k].op # "create" ]_vars

\* After the shutdown: a discovery task whose event was still queued when
\* watch_new_runs was interrupted has been created and then cancelled before
\* it ran.
QueuedEventCancelled ==
    /\ phase = "stopped"
    /\ \E i \in 1..Len(tasks) :
          /\ tasks[i].coro = "_do_sync"
          /\ tasks[i].must_cancel
          /\ tasks[i].cond = 0
          /\ detected[ExtractRunName(tasks[i].path)] = 0

\* C18: a completion event processed before its run is discovered is not
\* lost: its task waits on the new-run condition only while the run name is
\* no key of the run-completion map, and once the run is discovered and
\* nothing is left to run the completion has reached a discovery task of
\* the run.
EarlyCompletionDelivered ==
    /\ \A i \in 1..Len(tasks) :
          (tasks[i].coro = "_check_completion" /\ tasks[i].pc = "wait_new_run")
              => run_completion[ExtractRunName(tasks[i].path)] = 0
    /\ \A r \in Runs :
          (Settled /\ phase = "watching" /\ detected[r] > 0 /\ signal_seen[r] = "seen")
              => completed[r] > 0

\* A completion task that waited for its run to be discovered has been woken
\* by the discovery, whose task is parked on the condition stored under the
\* run name, while a completion task of the other run keeps waiting.
EarlyCompletionWoken ==
    \E i \in 1..Len(tasks) :
        /\ tasks[i].coro = "_check_completion"
        /\ tasks[i].pc = "notified"
        /\ ~tasks[i].must_cancel
        /\ run_completion[ExtractRunName(tasks[i].path)] > 0
        /\ \E j \in 1..Len(tasks) :
              /\ tasks[j].coro = "_do_sync"
              /\ tasks[j].pc = "waiting"
              /\ ExtractRunName(tasks[j].path) = ExtractRunName(tasks[i].path)
              /\ tasks[j].cond = run_completion[ExtractRunName(tasks[i].path)]
        /\ \E k \in 1..Len(tasks) :
              /\ tasks[k].coro = "_check_completion"
              /\ ExtractRunName(tasks[k].path) # ExtractRunName(tasks[i].path)
              /\ run_completion[ExtractRunName(tasks[k].path)] = 0

\* C19: the condition a discovery task waits on is the one currently stored
\* under its run name in the run-completion map, so the next completion
\* event processed for the run wakes it.
WaitsOnStoredCondition ==
    \A i \in 1..Len(tasks) :
        (tasks[i].coro = "_do_sync" /\ tasks[i].pc = "waiting")
            => tasks[i].cond = run_completion[ExtractRunName(tasks[i].path)]

\* C20: the task a done callback removes is present in its handler's _tasks
\* list: no removal has failed.
RemovalNeverFails == remove_errors = 0

====
